---- MODULE Spec2Model ----
(***************************************************************************)
(* Morse transcoder (archer884/morse): the code table, encode_byte, the    *)
(* three decoders (flat array, hash map, binary-heap index) and the        *)
(* message transcoder built on them.                                       *)
(*                                                                         *)
(* A str / String is a sequence of bytes (0..255); only ASCII texts are    *)
(* drawn.  A u8 or char payload of a Result is carried as the one-byte     *)
(* string, so that every Result has the shape [tag, val].                  *)
(***************************************************************************)
EXTENDS Integers, Sequences, FiniteSets, TLC

VARIABLES
    pc,               \* position of the caller: which call has returned
    byte,             \* argument of encode_byte
    code,             \* Result of encode_byte(byte)
    symbol,           \* Result of decode_character on that code
    i, j,             \* two indices into ENCODED_SEQUENCES
    code_i, code_j,   \* the table entries read at i and at j
    token,            \* argument of the per-token decoders
    overflow_checks,  \* build profile: are integer overflow checks compiled in
    main_result,      \* Result of main.rs decode_character(token)
    map_result,       \* Result of CharacterDecoder::decode(token)
    flat_result,      \* Result of benches decode_character(token)
    heap_result,      \* Result of decode_character_heap(token)
    text,             \* the input read from stdin / passed to the transcoder
    words,            \* the words (lists of table indices) text was written from
    via,              \* entry point used: "run" or "direct"
    encoded,          \* Result of the encode side
    decoded           \* Result of the decode side

vars == <<pc, byte, code, symbol, i, j, code_i, code_j, token, overflow_checks, main_result,
          map_result, flat_result, heap_result, text, words, via, encoded, decoded>>

----------------------------------------------------------------------------
(* Bytes the code names. *)
DOT == 46
DASH == 45
SPACE == 32
SLASH == 47
UPPER_A == 65
DIGIT_0 == 48

(* Option<u8>: None is the empty sequence, Some(b) the one-byte sequence. *)
None == <<>>
Some(b) == <<b>>

(* Result values. *)
Ok(v) == [tag |-> "Ok", val |-> v]
Err(v) == [tag |-> "Err", val |-> v]
Panic == [tag |-> "Panic", val |-> <<>>]
NotCalled == [tag |-> "NotCalled", val |-> <<>>]

----------------------------------------------------------------------------
(* mod data *)

(* The table with the entry of B mistyped as "-..", the Code of D. *)
ENCODED_SEQUENCES_typo ==
    << <<DOT, DASH>>,
       <<DASH, DOT, DOT>>,
       <<DASH, DOT, DASH, DOT>>,
       <<DASH, DOT, DOT>>,
       <<DOT>>,
       <<DOT, DOT, DASH, DOT>>,
       <<DASH, DASH, DOT>>,
       <<DOT, DOT, DOT, DOT>>,
       <<DOT, DOT>>,
       <<DOT, DASH, DASH, DASH>>,
       <<DASH, DOT, DASH>>,
       <<DOT, DASH, DOT, DOT>>,
       <<DASH, DASH>>,
       <<DASH, DOT>>,
       <<DASH, DASH, DASH>>,
       <<DOT, DASH, DASH, DOT>>,
       <<DASH, DASH, DOT, DASH>>,
       <<DOT, DASH, DOT>>,
       <<DOT, DOT, DOT>>,
       <<DASH>>,
       <<DOT, DOT, DASH>>,
       <<DOT, DOT, DOT, DASH>>,
       <<DOT, DASH, DASH>>,
       <<DASH, DOT, DOT, DASH>>,
       <<DASH, DOT, DASH, DASH>>,
       <<DASH, DASH, DOT, DOT>>,
       <<DASH, DASH, DASH, DASH, DASH>>,
       <<DOT, DASH, DASH, DASH, DASH>>,
       <<DOT, DOT, DASH, DASH, DASH>>,
       <<DOT, DOT, DOT, DASH, DASH>>,
       <<DOT, DOT, DOT, DOT, DASH>>,
       <<DOT, DOT, DOT, DOT, DOT>>,
       <<DASH, DOT, DOT, DOT, DOT>>,
       <<DASH, DASH, DOT, DOT, DOT>>,
       <<DASH, DASH, DASH, DOT, DOT>>,
       <<DASH, DASH, DASH, DASH, DOT>> >>

ENCODED_SEQUENCES ==
    << <<DOT, DASH>>,
       <<DASH, DOT, DOT, DOT>>,
       <<DASH, DOT, DASH, DOT>>,
       <<DASH, DOT, DOT>>,
       <<DOT>>,
       <<DOT, DOT, DASH, DOT>>,
       <<DASH, DASH, DOT>>,
       <<DOT, DOT, DOT, DOT>>,
       <<DOT, DOT>>,
       <<DOT, DASH, DASH, DASH>>,
       <<DASH, DOT, DASH>>,
       <<DOT, DASH, DOT, DOT>>,
       <<DASH, DASH>>,
       <<DASH, DOT>>,
       <<DASH, DASH, DASH>>,
       <<DOT, DASH, DASH, DOT>>,
       <<DASH, DASH, DOT, DASH>>,
       <<DOT, DASH, DOT>>,
       <<DOT, DOT, DOT>>,
       <<DASH>>,
       <<DOT, DOT, DASH>>,
       <<DOT, DOT, DOT, DASH>>,
       <<DOT, DASH, DASH>>,
       <<DASH, DOT, DOT, DASH>>,
       <<DASH, DOT, DASH, DASH>>,
       <<DASH, DASH, DOT, DOT>>,
       <<DASH, DASH, DASH, DASH, DASH>>,
       <<DOT, DASH, DASH, DASH, DASH>>,
       <<DOT, DOT, DASH, DASH, DASH>>,
       <<DOT, DOT, DOT, DASH, DASH>>,
       <<DOT, DOT, DOT, DOT, DASH>>,
       <<DOT, DOT, DOT, DOT, DOT>>,
       <<DASH, DOT, DOT, DOT, DOT>>,
       <<DASH, DASH, DOT, DOT, DOT>>,
       <<DASH, DASH, DASH, DOT, DOT>>,
       <<DASH, DASH, DASH, DASH, DOT>> >>

DECODING_ARRAY ==
    <<
       Some(48),   \* [0] b'0'
       None,
       None,
       None,
       Some(57),   \* [4] b'9'
       None,
       Some(79),   \* [6] b'O'
       None,
       None,
       None,
       None,
       None,
       Some(56),   \* [12] b'8'
       None,
       Some(77),   \* [14] b'M'
       None,
       None,
       None,
       Some(81),   \* [18] b'Q'
       None,
       None,
       None,
       Some(71),   \* [22] b'G'
       None,
       None,
       None,
       Some(90),   \* [26] b'Z'
       None,
       Some(55),   \* [28] b'7'
       None,
       Some(84),   \* [30] b'T'
       None,
       None,
       None,
       Some(89),   \* [34] b'Y'
       None,
       None,
       None,
       Some(75),   \* [38] b'K'
       None,
       None,
       None,
       Some(67),   \* [42] b'C'
       None,
       None,
       None,
       Some(78),   \* [46] b'N'
       None,
       None,
       None,
       Some(88),   \* [50] b'X'
       None,
       None,
       None,
       Some(68),   \* [54] b'D'
       None,
       None,
       None,
       Some(66),   \* [58] b'B'
       None,
       Some(54),   \* [60] b'6'
       None,
       None,
       None,
       Some(49),   \* [64] b'1'
       None,
       Some(74),   \* [66] b'J'
       None,
       None,
       None,
       Some(87),   \* [70] b'W'
       None,
       None,
       None,
       Some(80),   \* [74] b'P'
       None,
       None,
       None,
       Some(65),   \* [78] b'A'
       None,
       None,
       None,
       None,
       None,
       None,
       None,
       Some(82),   \* [86] b'R'
       None,
       None,
       None,
       Some(76),   \* [90] b'L'
       None,
       None,
       None,
       Some(69),   \* [94] b'E'
       None,
       Some(50),   \* [96] b'2'
       None,
       None,
       None,
       None,
       None,
       Some(85),   \* [102] b'U'
       None,
       None,
       None,
       Some(70),   \* [106] b'F'
       None,
       None,
       None,
       Some(73),   \* [110] b'I'
       None,
       Some(51),   \* [112] b'3'
       None,
       Some(86),   \* [114] b'V'
       None,
       None,
       None,
       Some(83),   \* [118] b'S'
       None,
       Some(52),   \* [120] b'4'
       None,
       Some(72),   \* [122] b'H'
       None,
       Some(53)   \* [124] b'5'
    >>

DECODING_ARRAY_2 ==
    <<
       None,
       Some(69),   \* [1] b'E'
       Some(84),   \* [2] b'T'
       Some(73),   \* [3] b'I'
       Some(65),   \* [4] b'A'
       Some(78),   \* [5] b'N'
       Some(77),   \* [6] b'M'
       Some(83),   \* [7] b'S'
       Some(85),   \* [8] b'U'
       Some(82),   \* [9] b'R'
       Some(87),   \* [10] b'W'
       Some(68),   \* [11] b'D'
       Some(75),   \* [12] b'K'
       Some(71),   \* [13] b'G'
       Some(79),   \* [14] b'O'
       Some(72),   \* [15] b'H'
       Some(86),   \* [16] b'V'
       Some(70),   \* [17] b'F'
       None,
       Some(76),   \* [19] b'L'
       None,
       Some(80),   \* [21] b'P'
       Some(74),   \* [22] b'J'
       Some(66),   \* [23] b'B'
       Some(88),   \* [24] b'X'
       Some(67),   \* [25] b'C'
       Some(89),   \* [26] b'Y'
       Some(90),   \* [27] b'Z'
       Some(81),   \* [28] b'Q'
       None,
       None,
       Some(53),   \* [31] b'5'
       Some(52),   \* [32] b'4'
       None,
       Some(51),   \* [34] b'3'
       None,
       None,
       None,
       Some(50),   \* [38] b'2'
       None,
       None,
       None,
       None,
       None,
       None,
       None,
       Some(49),   \* [46] b'1'
       Some(54),   \* [47] b'6'
       None,
       None,
       None,
       None,
       None,
       None,
       None,
       Some(55),   \* [55] b'7'
       None,
       None,
       None,
       Some(56),   \* [59] b'8'
       None,
       Some(57),   \* [61] b'9'
       Some(48)   \* [62] b'0'
    >>

----------------------------------------------------------------------------
(* Bounds of the checked inputs. *)
MaxMarks == 7    \* longest token drawn from TokenBytes
MaxText == 4     \* longest plaintext drawn from TextBytes
MaxWords == 2    \* most words of a written code text
MaxCodes == 3    \* most Codes of a written code text, over all its words

----------------------------------------------------------------------------
(* u8 helpers of the standard library, on ASCII. *)
is_ascii_alphabetic(u) == (u \in 65..90) \/ (u \in 97..122)
is_ascii_alphanumeric(u) == is_ascii_alphabetic(u) \/ (u \in 48..57)
to_ascii_uppercase(u) == IF u \in 97..122 THEN u - 32 ELSE u
NUMERIC_RANGE == 48..57

(* slice[idx]: panics when idx is out of bounds. *)
IndexOrPanic(slice, idx) ==
    IF idx >= 0 /\ idx < Len(slice) THEN Ok(slice[idx + 1]) ELSE Panic

(* slice.get(idx as usize).copied().and_then(|x| x): a negative i32 casts to
   a usize above 2^63, which is out of bounds like any idx >= len. *)
get(slice, idx) ==
    IF idx >= 0 /\ idx < Len(slice) THEN slice[idx + 1] ELSE None

(* encode_byte without the + 26 of the digit arm. *)
encode_byte_no_offset(u) ==
    IF is_ascii_alphabetic(u)
    THEN IndexOrPanic(ENCODED_SEQUENCES, (to_ascii_uppercase(u) - UPPER_A) % 256)
    ELSE IF u \in NUMERIC_RANGE
    THEN IndexOrPanic(ENCODED_SEQUENCES, (u - DIGIT_0) % 256)
    ELSE Err(<<u>>)

encode_byte(u) ==
    IF is_ascii_alphabetic(u)
    THEN IndexOrPanic(ENCODED_SEQUENCES, (to_ascii_uppercase(u) - UPPER_A) % 256)
    ELSE IF u \in NUMERIC_RANGE
    THEN IndexOrPanic(ENCODED_SEQUENCES, (u - DIGIT_0 + 26) % 256)
    ELSE Err(<<u>>)

(* The fold of uncorrected_offset: increment is halved after every byte,
   mark or not.  |offset| <= 63, so the i32 never overflows. *)
RECURSIVE for_each_offset(_, _, _)
for_each_offset(bytes, offset, increment) ==
    IF bytes = <<>> THEN offset
    ELSE LET u == Head(bytes)
             next == IF u = DOT THEN offset + increment
                     ELSE IF u = DASH THEN offset - increment
                     ELSE offset
         IN for_each_offset(Tail(bytes), next, increment \div 2)

(* uncorrected_offset starting from increment 16. *)
uncorrected_offset_half(character) == for_each_offset(character, 0, 16)

uncorrected_offset(character) == for_each_offset(character, 0, 32)

MAGIC_NUMBER == 62

(* decode_character with a correction factor two short. *)
decode_character_no_correction(character) ==
    LET idx == uncorrected_offset(character) + MAGIC_NUMBER - 2
        slot == get(DECODING_ARRAY, idx)
    IN IF slot # None THEN Ok(slot) ELSE Err(character)

decode_character(character) ==
    LET idx == uncorrected_offset(character) + MAGIC_NUMBER
        slot == get(DECODING_ARRAY, idx)
    IN IF slot # None THEN Ok(slot) ELSE Err(character)

----------------------------------------------------------------------------
(* Idle values of the variables a specification does not use. *)
IdleSymbol == byte = 0 /\ code = NotCalled /\ symbol = NotCalled
IdleTable == i = 0 /\ j = 0 /\ code_i = NotCalled /\ code_j = NotCalled
IdleToken ==
    /\ token = <<>> /\ overflow_checks = FALSE
    /\ main_result = NotCalled /\ map_result = NotCalled
    /\ flat_result = NotCalled /\ heap_result = NotCalled
IdleMessage ==
    /\ text = <<>> /\ words = <<>> /\ via = "none"
    /\ encoded = NotCalled /\ decoded = NotCalled

symbolVars == <<byte, code, symbol>>
tableVars == <<i, j, code_i, code_j>>
tokenVars == <<token, overflow_checks, main_result, map_result, flat_result, heap_result>>
messageVars == <<text, words, via, encoded, decoded>>

----------------------------------------------------------------------------
(* One symbol: encode_byte, then decode_character on the code it returned. *)
InitSymbol ==
    /\ pc = "start"
    /\ byte \in 0..255
    /\ code = NotCalled /\ symbol = NotCalled
    /\ IdleTable /\ IdleToken /\ IdleMessage

EncodeByte ==
    /\ pc = "start"
    /\ code' = encode_byte(byte)
    /\ pc' = "encoded"
    /\ UNCHANGED <<byte, symbol, tableVars, tokenVars, messageVars>>

DecodeCode ==
    /\ pc = "encoded"
    /\ code.tag = "Ok"
    /\ symbol' = decode_character(code.val)
    /\ pc' = "decoded"
    /\ UNCHANGED <<byte, code, tableVars, tokenVars, messageVars>>

NextSymbol == EncodeByte \/ DecodeCode

SpecSymbol == InitSymbol /\ [][NextSymbol]_vars

(* C2: encode_byte is total over the 256 bytes and matches the table: a
   letter of either case gives the entry at uppercase(byte) - 'A', a digit
   the entry at byte - '0' + 26, every other byte the Encode error carrying
   that byte; the index is within 0..35 (no panic). *)
EncodeByteMatchesTable ==
    pc # "start" =>
        /\ code.tag \in {"Ok", "Err"}
        /\ (byte \in 65..90 => code = Ok(ENCODED_SEQUENCES[byte - 65 + 1]))
        /\ (byte \in 97..122 => code = Ok(ENCODED_SEQUENCES[byte - 97 + 1]))
        /\ (byte \in 48..57 => code = Ok(ENCODED_SEQUENCES[byte - 48 + 27]))
        /\ (byte \notin (65..90) \cup (97..122) \cup (48..57) => code = Err(<<byte>>))

EncodeByteWitness ==
    pc = "encoded" /\ byte = 57 /\ code = Ok(<<DASH, DASH, DASH, DASH, DOT>>)

(* C1: per-symbol round trip: for a letter or digit s,
   decode_character(encode_byte(s)) is Ok(uppercase(s)). *)
SymbolRoundTrip ==
    /\ (pc = "encoded" /\ is_ascii_alphanumeric(byte) => code.tag = "Ok")
    /\ (pc = "decoded" =>
            symbol = Ok(<<IF byte \in 97..122 THEN byte - 32 ELSE byte>>))

SymbolRoundTripWitness ==
    pc = "decoded" /\ byte = 113 /\ symbol = Ok(<<81>>)

----------------------------------------------------------------------------
(* The code table: two entries looked up side by side. *)
InitTable ==
    /\ pc = "start"
    /\ i \in 0..35 /\ j \in 0..35
    /\ code_i = NotCalled /\ code_j = NotCalled
    /\ IdleSymbol /\ IdleToken /\ IdleMessage

IsPrefix(s, t) == Len(s) <= Len(t) /\ SubSeq(t, 1, Len(s)) = s

Lookup ==
    /\ pc = "start"
    /\ code_i' = IndexOrPanic(ENCODED_SEQUENCES, i)
    /\ code_j' = IndexOrPanic(ENCODED_SEQUENCES, j)
    /\ pc' = "looked"
    /\ UNCHANGED <<i, j, symbolVars, tokenVars, messageVars>>

NextTable == Lookup

SpecTable == InitTable /\ [][NextTable]_vars

(* C9 as stated: the 36 Codes are pairwise distinct and none is a prefix of
   another. *)
TablePrefixFree ==
    pc = "looked" /\ i # j =>
        code_i # code_j /\ ~IsPrefix(code_i.val, code_j.val)

(* C9 as amended: the 36 Codes are pairwise distinct (the table is not
   prefix-free: "." is a prefix of ".-"). *)
TablePairwiseDistinct ==
    pc = "looked" /\ i # j =>
        code_i.tag = "Ok" /\ code_j.tag = "Ok" /\ code_i.val # code_j.val

TablePairwiseDistinctWitness ==
    pc = "looked" /\ i = 4 /\ j = 0 /\ code_i = Ok(<<DOT>>) /\ code_j = Ok(<<DOT, DASH>>)

----------------------------------------------------------------------------
(* benches/decode.rs: the three decoders the benchmark runs side by side. *)

ALPHABET == [k \in 1..26 |-> 64 + k]    \* "ABCDEFGHIJKLMNOPQRSTUVWXYZ".chars()
DIGITS == [k \in 1..10 |-> 47 + k]      \* "0123456789".chars()

zip(a, b) ==
    [k \in 1..(IF Len(a) < Len(b) THEN Len(a) ELSE Len(b)) |-> <<a[k], b[k]>>]

(* CharacterDecoder::new: the (Code, char) pairs in the order they are
   collected into the map. *)
CharacterDecoder_new ==
    zip(SubSeq(ENCODED_SEQUENCES, 1, 26), ALPHABET)
        \o zip(SubSeq(ENCODED_SEQUENCES, 27, Len(ENCODED_SEQUENCES)), DIGITS)

(* HashMap::get on the collected pairs: a later pair replaces an earlier
   one with the same key. *)
map_get(pairs, key) ==
    LET hits == {k \in 1..Len(pairs) : pairs[k][1] = key}
    IN IF hits = {} THEN None
       ELSE Some(pairs[CHOOSE k \in hits : \A h \in hits : h <= k][2])

CharacterDecoder_decode(character) ==
    LET found == map_get(CharacterDecoder_new, character)
    IN IF found # None THEN Ok(found) ELSE Err(character)

(* benches copy of uncorrected_offset: increment = 1 << 5, then >>= 1. *)
RECURSIVE bench_for_each_offset(_, _, _)
bench_for_each_offset(bytes, offset, increment) ==
    IF bytes = <<>> THEN offset
    ELSE LET u == Head(bytes)
             next == IF u = DOT THEN offset + increment
                     ELSE IF u = DASH THEN offset - increment
                     ELSE offset
         IN bench_for_each_offset(Tail(bytes), next, increment \div 2)

bench_uncorrected_offset(character) == bench_for_each_offset(character, 0, 2^5)

bench_decode_character(character) ==
    LET idx == bench_uncorrected_offset(character) + MAGIC_NUMBER
        slot == get(DECODING_ARRAY, idx)
    IN IF slot # None THEN Ok(slot) ELSE Err(character)

(* i32 arithmetic of character_index: idx * 2 + c for c in {1, 2}. *)
I32_MAX == 2147483647
Pow30 == 1073741824

(* Does idx * 2 + c leave the i32 range (a panic when overflow checks are
   compiled in)? *)
overflows(idx, c) ==
    \/ idx > (I32_MAX - c) \div 2
    \/ idx + (c - 1) < -Pow30

(* idx * 2 + c modulo 2^32, read as an i32 (overflow checks off). *)
wrapping_mul2_add(idx, c) ==
    LET u == IF idx >= 0 THEN idx ELSE (idx + Pow30) + Pow30   \* idx mod 2^31
        hi == u >= Pow30                                      \* bit 30 of idx
        v == IF hi THEN u - Pow30 ELSE u
    IN IF v <= (I32_MAX - c) \div 2
       THEN IF hi THEN ((2 * v + c) - Pow30) - Pow30 ELSE 2 * v + c
       ELSE IF hi THEN 0 ELSE (-I32_MAX) - 1

RECURSIVE fold_index(_, _, _)
fold_index(bytes, idx, checks) ==
    IF bytes = <<>> THEN [panicked |-> FALSE, idx |-> idx]
    ELSE LET u == Head(bytes)
             c == IF u = DOT THEN 1 ELSE 2
         IN IF u \notin {DOT, DASH} THEN fold_index(Tail(bytes), idx, checks)
            ELSE IF overflows(idx, c) /\ checks
                 THEN [panicked |-> TRUE, idx |-> idx]
                 ELSE fold_index(Tail(bytes), wrapping_mul2_add(idx, c), checks)

character_index(character, checks) == fold_index(character, 0, checks)

decode_character_heap(character, checks) ==
    LET r == character_index(character, checks)
        slot == get(DECODING_ARRAY_2, r.idx)
    IN IF r.panicked THEN Panic
       ELSE IF slot # None THEN Ok(slot) ELSE Err(character)

----------------------------------------------------------------------------
(* One token handed to the decoders. *)
TokenBytes == {DOT, DASH, 120}    \* the marks and b'x', a byte that is no mark
Dots(n) == [k \in 1..n |-> DOT]

(* Tokens long enough for character_index to leave the i32 range. *)
LongTokens ==
    { Dots(30), Dots(31), Dots(30) \o <<DASH, DOT>>, Dots(33) }

Tokens == (UNION {[1..n -> TokenBytes] : n \in 0..MaxMarks}) \cup LongTokens

OnlyMarks(s) == \A k \in 1..Len(s) : s[k] \in {DOT, DASH}
IsTableCode(s) == \E k \in 1..Len(ENCODED_SEQUENCES) : ENCODED_SEQUENCES[k] = s

InitToken ==
    /\ pc = "start"
    /\ token \in Tokens
    /\ overflow_checks \in BOOLEAN
    /\ main_result = NotCalled /\ map_result = NotCalled
    /\ flat_result = NotCalled /\ heap_result = NotCalled
    /\ IdleSymbol /\ IdleTable /\ IdleMessage

(* main.rs decode_character on the token. *)
DecodeCharacter ==
    /\ main_result = NotCalled
    /\ main_result' = decode_character(token)
    /\ UNCHANGED <<pc, token, overflow_checks, map_result, flat_result, heap_result,
                   symbolVars, tableVars, messageVars>>

(* criterion_benchmark's three closures on the same token: "map",
   "flat tree" and "ftree 2.0". *)
Bench ==
    /\ pc = "start"
    /\ map_result' = CharacterDecoder_decode(token)
    /\ flat_result' = bench_decode_character(token)
    /\ heap_result' = decode_character_heap(token, overflow_checks)
    /\ pc' = "benched"
    /\ UNCHANGED <<token, overflow_checks, main_result,
                   symbolVars, tableVars, messageVars>>

NextToken == DecodeCharacter \/ Bench

SpecToken == InitToken /\ [][NextToken]_vars

(* C3: decode_character rejects every token holding a byte other than '.'
   and '-' with the Decode error carrying that token. *)
ForeignBytesRejected ==
    main_result # NotCalled /\ ~OnlyMarks(token) => main_result = Err(token)

(* C4: for a token made only of marks, of any length, decode_character
   succeeds exactly when the token is one of the 36 table Codes, and fails
   with the Decode error carrying the token otherwise (the empty token, 6 or
   more marks, unassigned sequences); the offset stays within the i32 range
   and the lookup never panics. *)
MarksOnlyDecode ==
    main_result # NotCalled /\ OnlyMarks(token) =>
        /\ main_result.tag \in {"Ok", "Err"}
        /\ (main_result.tag = "Ok" <=> IsTableCode(token))
        /\ (~IsTableCode(token) => main_result = Err(token))
        /\ uncorrected_offset(token) \in -63..63

MarksOnlyDecodeWitness ==
    /\ token = Dots(6) /\ main_result = Err(Dots(6))

(* C8: the three decoders give the same outcome on every token. *)
StrategiesAgree ==
    pc = "benched" => map_result = flat_result /\ flat_result = heap_result

----------------------------------------------------------------------------
(* The message transcoder of main.rs. *)

(* char::is_whitespace on ASCII: U+0009..U+000D and U+0020. *)
is_whitespace(u) == (u \in 9..13) \/ u = SPACE

RECURSIVE trim_start(_)
trim_start(s) ==
    IF s # <<>> /\ is_whitespace(Head(s)) THEN trim_start(Tail(s)) ELSE s

RECURSIVE trim_end(_)
trim_end(s) ==
    IF s # <<>> /\ is_whitespace(s[Len(s)])
    THEN trim_end(SubSeq(s, 1, Len(s) - 1)) ELSE s

trim(s) == trim_end(trim_start(s))

(* str::split(ch): the pieces between occurrences of ch, at least one. *)
RECURSIVE split(_, _)
split(s, ch) ==
    LET at == {k \in 1..Len(s) : s[k] = ch}
    IN IF at = {} THEN <<s>>
       ELSE LET k == CHOOSE m \in at : \A n \in at : m <= n
            IN <<SubSeq(s, 1, k - 1)>> \o split(SubSeq(s, k + 1, Len(s)), ch)

(* str::split_whitespace: the maximal runs of non-whitespace bytes. *)
RECURSIVE split_whitespace(_)
split_whitespace(s) ==
    LET t == trim_start(s)
        ws == {k \in 1..Len(t) : is_whitespace(t[k])}
    IN IF t = <<>> THEN <<>>
       ELSE IF ws = {} THEN <<t>>
       ELSE LET k == CHOOSE m \in ws : \A n \in ws : m <= n
            IN <<SubSeq(t, 1, k - 1)>> \o split_whitespace(SubSeq(t, k + 1, Len(t)))

(* The loop pushing "/" for a space, without the space before it. *)
RECURSIVE encode_rest_bare_slash(_, _)
encode_rest_bare_slash(bytes, buf) ==
    IF bytes = <<>> THEN Ok(buf)
    ELSE LET u == Head(bytes)
             r == encode_byte(u)
         IN IF u = SPACE THEN encode_rest_bare_slash(Tail(bytes), buf \o <<SLASH>>)
            ELSE IF r.tag # "Ok" THEN r
            ELSE encode_rest_bare_slash(Tail(bytes), buf \o <<SPACE>> \o r.val)

(* The loop of encode_message over the bytes after the first. *)
RECURSIVE encode_rest(_, _)
encode_rest(bytes, buf) ==
    IF bytes = <<>> THEN Ok(buf)
    ELSE LET u == Head(bytes)
             r == encode_byte(u)
         IN IF u = SPACE THEN encode_rest(Tail(bytes), buf \o <<SPACE, SLASH>>)
            ELSE IF r.tag # "Ok" THEN r
            ELSE encode_rest(Tail(bytes), buf \o <<SPACE>> \o r.val)

encode_message(message) ==
    IF message = <<>> THEN Ok(<<>>)
    ELSE LET r == encode_byte(Head(message))
         IN IF r.tag # "Ok" THEN r ELSE encode_rest(Tail(message), r.val)

(* decode_word_into: the Result carries buf as it is after the word. *)
RECURSIVE decode_characters(_, _)
decode_characters(characters, buf) ==
    IF characters = <<>> THEN Ok(buf)
    ELSE LET r == decode_character(Head(characters))
         IN IF r.tag # "Ok" THEN r
            ELSE decode_characters(Tail(characters), buf \o r.val)

(* decode_word_into splitting on single spaces, not on whitespace runs. *)
decode_word_into_split_space(word, buf) == decode_characters(split(word, SPACE), buf)

decode_word_into(word, buf) == decode_characters(split_whitespace(word), buf)

(* The loop without the space pushed before each further word. *)
RECURSIVE decode_rest_no_space(_, _)
decode_rest_no_space(ws, buf) ==
    IF ws = <<>> THEN Ok(buf)
    ELSE LET r == decode_word_into(Head(ws), buf)
         IN IF r.tag # "Ok" THEN r ELSE decode_rest_no_space(Tail(ws), r.val)

(* The loop of decode_message over the words after the first. *)
RECURSIVE decode_rest(_, _)
decode_rest(ws, buf) ==
    IF ws = <<>> THEN Ok(buf)
    ELSE LET r == decode_word_into(Head(ws), buf \o <<SPACE>>)
         IN IF r.tag # "Ok" THEN r ELSE decode_rest(Tail(ws), r.val)

decode_message(message) ==
    LET ws == split(message, SLASH)
        r == decode_word_into(Head(ws), <<>>)
    IN IF r.tag # "Ok" THEN r ELSE decode_rest(Tail(ws), r.val)

(* run, Opts::Encode: trim, keep spaces and ASCII alphanumerics, encode. *)
filter(s) == SelectSeq(s, LAMBDA u : u = SPACE \/ is_ascii_alphanumeric(u))
run_encode(message) == encode_message(filter(trim(message)))

(* run, Opts::Decode. *)
run_decode(message) == decode_message(trim(message))

----------------------------------------------------------------------------
(* A plaintext through the encode side, then back through decode_message. *)
TextBytes == {97, 66, 49, SPACE, 33, 10}    \* a B 1 space ! newline
ScenarioTexts ==
    { <<72, 101, 108, 108, 111, 32, 87, 111, 114, 108, 100>>,   \* Hello World
      <<97, 98, 99, 44, 32, 49, 50, 51, 33>>,                   \* abc, 123!
      <<97, 98, 99, 32, 49, 50, 51>> }                          \* abc 123
Texts == (UNION {[1..n -> TextBytes] : n \in 0..MaxText}) \cup ScenarioTexts

InitMessage ==
    /\ pc = "start"
    /\ text \in Texts
    /\ words = <<>> /\ via = "none"
    /\ encoded = NotCalled /\ decoded = NotCalled
    /\ IdleSymbol /\ IdleTable /\ IdleToken

RunEncode ==
    /\ pc = "start"
    /\ encoded' = run_encode(text)
    /\ via' = "run"
    /\ pc' = "encoded"
    /\ UNCHANGED <<text, words, decoded, symbolVars, tableVars, tokenVars>>

EncodeMessage ==
    /\ pc = "start"
    /\ encoded' = encode_message(text)
    /\ via' = "direct"
    /\ pc' = "encoded"
    /\ UNCHANGED <<text, words, decoded, symbolVars, tableVars, tokenVars>>

DecodeMessage ==
    /\ pc = "encoded"
    /\ encoded.tag = "Ok"
    /\ decoded' = decode_message(encoded.val)
    /\ pc' = "decoded"
    /\ UNCHANGED <<text, words, via, encoded, symbolVars, tableVars, tokenVars>>

NextMessage == RunEncode \/ EncodeMessage \/ DecodeMessage

SpecMessage == InitMessage /\ [][NextMessage]_vars

(* C5: the encode pipeline of run (trim, filter, encode_message) returns Ok
   for every raw input text. *)
RunEncodeNeverFails ==
    pc # "start" /\ via = "run" => encoded.tag = "Ok"

(* The table Code of an alphanumeric byte, read off the table's order. *)
CodeOf(u) ==
    IF u \in 65..90 THEN ENCODED_SEQUENCES[u - 64]
    ELSE IF u \in 97..122 THEN ENCODED_SEQUENCES[u - 96]
    ELSE ENCODED_SEQUENCES[u - 21]

RECURSIVE Join(_, _)
Join(parts, sep) ==
    IF parts = <<>> THEN <<>>
    ELSE IF Len(parts) = 1 THEN parts[1]
    ELSE parts[1] \o sep \o Join(Tail(parts), sep)

(* One or more non-empty alphanumeric words separated by single spaces. *)
SingleSpacedWords(s) ==
    /\ s # <<>>
    /\ \A k \in 1..Len(s) : s[k] = SPACE \/ is_ascii_alphanumeric(s[k])
    /\ s[1] # SPACE /\ s[Len(s)] # SPACE
    /\ \A k \in 1..(Len(s) - 1) : ~(s[k] = SPACE /\ s[k + 1] = SPACE)

EncodedFormat(s) ==
    LET ws == split(s, SPACE)
    IN Join([n \in 1..Len(ws) |->
                Join([k \in 1..Len(ws[n]) |-> CodeOf(ws[n][k])], <<SPACE>>)],
            <<SPACE, SLASH, SPACE>>)

(* C6: for a plaintext of non-empty alphanumeric words separated by single
   spaces, the encoding is the Codes in input order, one space between the
   Codes of a word and " / " between words, nothing before or after. *)
EncodeMessageFormat ==
    pc # "start" /\ SingleSpacedWords(text) => encoded = Ok(EncodedFormat(text))

EncodeMessageFormatWitness ==
    /\ pc = "encoded"
    /\ text = <<72, 101, 108, 108, 111, 32, 87, 111, 114, 108, 100>>
    /\ encoded = Ok(<<46, 46, 46, 46, 32, 46, 32, 46, 45, 46, 46, 32, 46, 45, 46, 46,
                      32, 45, 45, 45, 32, 47, 32, 46, 45, 45, 32, 45, 45, 45, 32, 46,
                      45, 46, 32, 46, 45, 46, 46, 32, 45, 46, 46>>)

Plain(s) == \A k \in 1..Len(s) : s[k] = SPACE \/ is_ascii_alphanumeric(s[k])
Uppercased(s) == [k \in 1..Len(s) |-> IF s[k] \in 97..122 THEN s[k] - 32 ELSE s[k]]

(* C10: for a plaintext m of letters, digits and spaces that does not begin
   with a space, encode_message(m) succeeds and decode_message of it is m
   with its letters uppercased, spaces kept in number and position. *)
MessageRoundTrip ==
    via = "direct" /\ Plain(text) /\ (text = <<>> \/ text[1] # SPACE) =>
        /\ (pc = "encoded" => encoded.tag = "Ok")
        /\ (pc = "decoded" => decoded = Ok(Uppercased(text)))

MessageRoundTripWitness ==
    /\ pc = "decoded" /\ via = "direct"
    /\ text = <<97, SPACE, SPACE, 66>>
    /\ decoded = Ok(<<65, SPACE, SPACE, 66>>)

----------------------------------------------------------------------------
(* A code text written from known words, through the decode side. *)
SymbolChoices == {4, 0, 31, 26}    \* table indices of E, A, 5 and 0
Gaps == { <<SPACE>>, <<SPACE, SPACE>>, <<9, 10>> }
Pads == { <<>>, <<SPACE>> }
ScenarioWords == << <<7, 4, 11, 11, 14>>, <<22, 14, 17, 11, 3>> >>   \* HELLO WORLD

(* The lists of n words holding at most budget Codes in all. *)
RECURSIVE WordListsOf(_, _)
WordListsOf(n, budget) ==
    IF n = 0 THEN {<<>>}
    ELSE UNION { {<<w>> \o rest : rest \in WordListsOf(n - 1, budget - Len(w))} :
                 w \in UNION {[1..k -> SymbolChoices] : k \in 0..budget} }

WordLists == UNION {WordListsOf(n, MaxCodes) : n \in 1..MaxWords}

(* The words as code text: Codes of a word separated by gap, words by '/'
   with pad on both sides, outer around the whole. *)
Written(wl, gap, pad, outer) ==
    outer \o Join([n \in 1..Len(wl) |->
                      Join([k \in 1..Len(wl[n]) |-> ENCODED_SEQUENCES[wl[n][k] + 1]], gap)],
                  pad \o <<SLASH>> \o pad) \o outer

InitDecode ==
    /\ pc = "start"
    /\ words \in WordLists \cup {ScenarioWords}
    /\ \E gap \in Gaps, pad \in Pads, outer \in Pads :
           text = Written(words, gap, pad, outer)
    /\ via = "none"
    /\ encoded = NotCalled /\ decoded = NotCalled
    /\ IdleSymbol /\ IdleTable /\ IdleToken

RunDecode ==
    /\ pc = "start"
    /\ decoded' = run_decode(text)
    /\ via' = "run"
    /\ pc' = "decoded"
    /\ UNCHANGED <<text, words, encoded, symbolVars, tableVars, tokenVars>>

DecodeText ==
    /\ pc = "start"
    /\ decoded' = decode_message(text)
    /\ via' = "direct"
    /\ pc' = "decoded"
    /\ UNCHANGED <<text, words, encoded, symbolVars, tableVars, tokenVars>>

NextDecode == RunDecode \/ DecodeText

SpecDecode == InitDecode /\ [][NextDecode]_vars

SymbolAt(idx) == IF idx < 26 THEN 65 + idx ELSE 48 + (idx - 26)

(* C7: for a code text whose tokens are all valid Codes, separated inside a
   word by runs of whitespace and with words separated by '/', the result is
   the uppercase Symbols of each word in order, words joined by one space. *)
DecodeMessageFormat ==
    pc = "decoded" =>
        decoded = Ok(Join([n \in 1..Len(words) |->
                              [k \in 1..Len(words[n]) |-> SymbolAt(words[n][k])]],
                          <<SPACE>>))

DecodeMessageFormatWitness ==
    /\ pc = "decoded"
    /\ text = <<46, 46, 46, 46, 32, 46, 32, 46, 45, 46, 46, 32, 46, 45, 46, 46,
                32, 45, 45, 45, 32, 47, 32, 46, 45, 45, 32, 45, 45, 45, 32, 46,
                45, 46, 32, 46, 45, 46, 46, 32, 45, 46, 46>>
    /\ decoded = Ok(<<72, 69, 76, 76, 79, 32, 87, 79, 82, 76, 68>>)

====
